---- MODULE Spec2Model ----
(***************************************************************************)
(* Model of serenity's Message (src/src/model/channel/message.rs): the      *)
(* mutator operations of `impl Message`, the limit checks and the          *)
(* permission gate they call.  A mutator call is two steps: the handler up *)
(* to its single `.await` on the transport, and the transport's answer.    *)
(* Strings are sequences of one-character strings, Option<T> is a sequence *)
(* of length 0 (None) or 1 (Some).                                         *)
(***************************************************************************)
EXTENDS Integers, Sequences, FiniteSets, TLC

VARIABLES
    msg,     \* the caller's Message value (`self`)
    cache,   \* cache_http.cache(): None, or Some of the cache snapshot
    pc,      \* "ready", or "submitted" while the call awaits the transport
    last,    \* the record of the call in progress or last completed
    ncalls   \* number of mutator calls started

vars == <<msg, cache, pc, last, ncalls>>

----------------------------------------------------------------------------
\* Bounds of the model.

\* Mutator calls per behaviour.
MaxCalls == 1

----------------------------------------------------------------------------
\* Option<T> and strings.

None == <<>>
Some(x) == <<x>>
IsSome(o) == Len(o) = 1

\* The string of n copies of the character c.
Rep(c, n) == [i \in 1..n |-> c]

\* Characters that take two bytes in UTF-8; every other character of the
\* model is ASCII.
TwoByteChars == {"e'"}

\* str::chars().count(): the number of Unicode scalar values.
CharCount(s) == Len(s)

\* str::len(): the length in bytes.
ByteLen(s) == Len(s) + Cardinality({i \in DOMAIN s : s[i] \in TwoByteChars})

----------------------------------------------------------------------------
\* Platform constants (crate::constants).

MESSAGE_CODE_LIMIT == 2000
EMBED_MAX_LENGTH == 6000
STICKER_MAX_COUNT == 3

----------------------------------------------------------------------------
\* Values of the model.

U1 == <<"7">>
U2 == <<"8">>
UserIds == {U1, U2}

G1 == <<"5">>
CH1 == <<"3">>
MID == <<"9">>

Permissions == {"MANAGE_MESSAGES", "ADD_REACTIONS", "SEND_MESSAGES"}

MessageTypes == {"Regular", "PinsAdd"}

\* The MessageFlags bits the model tracks.
MessageFlags == {"CROSSPOSTED", "IS_CROSSPOST", "SUPPRESS_EMBEDS"}

Hello == <<"h", "e", "l", "l", "o">>
Edited == <<"e", "d", "i", "t">>

\* A typed Embed of a Message.
Embed1 ==
    [author |-> Some([name |-> <<"b", "o", "b">>]),
     description |-> Some(<<"d">>),
     fields |-> <<[name |-> <<"n">>, value |-> <<"v">>]>>,
     footer |-> Some([text |-> <<"f">>]),
     title |-> Some(<<"t">>)]

\* A second Embed, with a title only.
Embed2 ==
    [author |-> None, description |-> None, fields |-> <<>>, footer |-> None,
     title |-> Some(<<"u">>)]

\* struct Message, the fields the operations read or write.
Message(author, content, kind, flags, guild_id) ==
    [id |-> MID,
     channel_id |-> CH1,
     author |-> [id |-> author],
     content |-> content,
     edited_timestamp |-> None,
     attachments |-> <<[id |-> <<"4">>], [id |-> <<"6">>]>>,
     embeds |-> <<Embed1, Embed2>>,
     kind |-> kind,
     flags |-> flags,
     guild_id |-> guild_id,
     member |-> IF guild_id = None THEN None ELSE Some([nick |-> <<"n">>]),
     mentions |-> <<>>,
     mention_roles |-> <<>>,
     timestamp |-> 0]

InitFlags ==
    {None, Some({}), Some({"CROSSPOSTED"}), Some({"IS_CROSSPOST"}),
     Some({"CROSSPOSTED", "IS_CROSSPOST"})}

InitMessages ==
    {Message(a, c, k, f, g) :
        a \in UserIds, c \in {<<>>, Hello}, k \in MessageTypes,
        f \in InitFlags, g \in {None, Some(G1)}}

\* The cache snapshot: the current user and the permissions the cache
\* resolves for that user in the message's channel.
CachedPermissions == SUBSET Permissions

\* The message's author is either user; the cache's current user is U1.
\* The roles of a cache that holds none: a function from role ids to names.
NoRoles == [id \in {} |-> <<>>]

Caches ==
    {None} \cup {Some([current_user_id |-> U1, perms |-> p, roles |-> NoRoles]) :
                     p \in CachedPermissions}

----------------------------------------------------------------------------
\* Errors and results.

Err(e, n, p) == [e |-> e, n |-> n, p |-> p]
Ok == Err("Ok", 0, "")
Pending == Err("Pending", 0, "")
NoResult == Err("None", 0, "")
InvalidPermissions(p) == Err("InvalidPermissions", 0, p)
InvalidUser == Err("InvalidUser", 0, "")
NotAuthor == Err("NotAuthor", 0, "")
MessageAlreadyCrossposted == Err("MessageAlreadyCrossposted", 0, "")
CannotCrosspostMessage == Err("CannotCrosspostMessage", 0, "")
MessageTooLong(n) == Err("MessageTooLong", n, "")
EmbedAmount == Err("EmbedAmount", 0, "")
EmbedTooLarge(n) == Err("EmbedTooLarge", n, "")
StickerAmount == Err("StickerAmount", 0, "")
ItemMissing == Err("ItemMissing", 0, "")
HttpError == Err("Http", 0, "")

\* The errors the transport answers a request with.
HttpErrors == {HttpError, Err("Http", 500, "")}

AuthorizationErrors == {"InvalidPermissions", "InvalidUser", "NotAuthor"}
ValidationErrors == {"MessageTooLong", "EmbedAmount", "EmbedTooLarge", "StickerAmount"}

----------------------------------------------------------------------------
\* JSON values (crate::json::Value) and maps (JsonMap).  A map is a function
\* from its keys to values; a key the map does not hold is outside its DOMAIN.

JString(s) == [t |-> "String", s |-> s]
JNumber(v) == [t |-> "Number", v |-> v]
JBool(b) == [t |-> "Bool", b |-> b]
JArray(a) == [t |-> "Array", a |-> a]
JObject(m) == [t |-> "Object", m |-> m]

EmptyMap == [k \in {} |-> JBool(FALSE)]

\* Map::insert
Put(m, k, v) == [x \in (DOMAIN m) \cup {k} |-> IF x = k THEN v ELSE m[x]]

\* insert when the option holds a value
PutOpt(m, k, o) == IF IsSome(o) THEN Put(m, k, o[1]) ELSE m

\* Map::get
Get(m, k) == IF k \in DOMAIN m THEN Some(m[k]) ELSE None

\* Value::get: None unless the value is an object holding the key.
VGet(v, k) == IF v.t = "Object" THEN Get(v.m, k) ELSE None

\* Some(&Value::String(ref s)) = o
IsString(o) == IsSome(o) /\ o[1].t = "String"
IsObject(o) == IsSome(o) /\ o[1].t = "Object"
IsArray(o) == IsSome(o) /\ o[1].t = "Array"

----------------------------------------------------------------------------
\* The limit checks.

\* overflow_length that counts bytes instead of scalar values.
overflow_length_bytes(content) ==
    LET count == ByteLen(content)
    IN  IF count > MESSAGE_CODE_LIMIT
        THEN Some(count - MESSAGE_CODE_LIMIT)
        ELSE None

\* Message::overflow_length
overflow_length(content) ==
    LET count == CharCount(content)
    IN  IF count > MESSAGE_CODE_LIMIT
        THEN Some(count - MESSAGE_CODE_LIMIT)
        ELSE None

\* Message::check_content_length
check_content_length(map) ==
    LET c == Get(map, "content")
    IN  IF IsString(c) /\ IsSome(overflow_length(c[1].s))
        THEN MessageTooLong(overflow_length(c[1].s)[1])
        ELSE Ok

\* `total +=` over the fields array of one embed: name and value of every
\* field that is an object, each counted when it is a string.
RECURSIVE FieldsTotal(_)
FieldsTotal(fields) ==
    IF fields = <<>>
    THEN 0
    ELSE LET field == Head(fields)
             n == VGet(field, "name")
             v == VGet(field, "value")
         IN  (IF IsString(n) THEN ByteLen(n[1].s) ELSE 0)
             + (IF IsString(v) THEN ByteLen(v[1].s) ELSE 0)
             + FieldsTotal(Tail(fields))

\* The body of the `for embed in embeds` loop up to the comparison: the
\* total of one embed.  The author's name is counted only when it is a JSON
\* object (`Some(&Value::Object(ref name)) = author.get("name")`), by its
\* number of entries.
EmbedTotal(embed) ==
    LET author == VGet(embed, "author")
        name == IF IsObject(author) THEN VGet(author[1], "name") ELSE None
        description == VGet(embed, "description")
        fields == VGet(embed, "fields")
        footer == VGet(embed, "footer")
        text == IF IsObject(footer) THEN VGet(footer[1], "text") ELSE None
        title == VGet(embed, "title")
    IN  (IF IsObject(name) THEN Cardinality(DOMAIN name[1].m) ELSE 0)
        + (IF IsString(description) THEN ByteLen(description[1].s) ELSE 0)
        + (IF IsArray(fields) THEN FieldsTotal(fields[1].a) ELSE 0)
        + (IF IsString(text) THEN ByteLen(text[1].s) ELSE 0)
        + (IF IsString(title) THEN ByteLen(title[1].s) ELSE 0)

\* check_embed_length that looks at the embeds' sizes before their number.
check_embed_length_size_first(map) ==
    LET e == Get(map, "embeds")
    IN  IF ~IsArray(e)
        THEN Ok
        ELSE LET embeds == e[1].a
                 over == {i \in DOMAIN embeds : EmbedTotal(embeds[i]) > EMBED_MAX_LENGTH}
             IN  IF over # {}
                 THEN LET first == CHOOSE i \in over : \A j \in over : i <= j
                      IN  EmbedTooLarge(EmbedTotal(embeds[first]) - EMBED_MAX_LENGTH)
                 ELSE IF Len(embeds) > 10
                 THEN EmbedAmount
                 ELSE Ok

\* Message::check_embed_length
check_embed_length(map) ==
    LET e == Get(map, "embeds")
    IN  IF ~IsArray(e)
        THEN Ok
        ELSE LET embeds == e[1].a
                 over == {i \in DOMAIN embeds : EmbedTotal(embeds[i]) > EMBED_MAX_LENGTH}
             IN  IF Len(embeds) > 10
                 THEN EmbedAmount
                 ELSE IF over = {}
                 THEN Ok
                 ELSE LET first == CHOOSE i \in over : \A j \in over : i <= j
                      IN  EmbedTooLarge(EmbedTotal(embeds[first]) - EMBED_MAX_LENGTH)

\* Message::check_sticker_ids_length
check_sticker_ids_length(map) ==
    LET s == Get(map, "sticker_ids")
    IN  IF IsArray(s) /\ Len(s[1].a) > STICKER_MAX_COUNT
        THEN StickerAmount
        ELSE Ok

\* check_lengths with the embed check before the content check.
check_lengths_embed_first(map) ==
    IF check_embed_length(map) # Ok
    THEN check_embed_length(map)
    ELSE IF check_content_length(map) # Ok
    THEN check_content_length(map)
    ELSE check_sticker_ids_length(map)

\* Message::check_lengths
check_lengths(map) ==
    IF check_content_length(map) # Ok
    THEN check_content_length(map)
    ELSE IF check_embed_length(map) # Ok
    THEN check_embed_length(map)
    ELSE check_sticker_ids_length(map)

----------------------------------------------------------------------------
\* The builders (crate::builder) the operations stage their payload with.
\* A builder is its map (`.0`) and the files to upload (`.1`).

\* CreateEmbed::from(Embed): the embed as the JSON object the builder holds.
CreateEmbedFrom(e) ==
    LET fld(f) == JObject([name |-> JString(f.name), value |-> JString(f.value)])
        m0 == PutOpt(EmptyMap, "title",
                     IF IsSome(e.title) THEN Some(JString(e.title[1])) ELSE None)
        m1 == PutOpt(m0, "description",
                     IF IsSome(e.description) THEN Some(JString(e.description[1])) ELSE None)
        m2 == PutOpt(m1, "author",
                     IF IsSome(e.author)
                     THEN Some(JObject([name |-> JString(e.author[1].name)]))
                     ELSE None)
        m3 == PutOpt(m2, "footer",
                     IF IsSome(e.footer)
                     THEN Some(JObject([text |-> JString(e.footer[1].text)]))
                     ELSE None)
    IN  JObject(Put(m3, "fields", JArray([i \in DOMAIN e.fields |-> fld(e.fields[i])])))

\* EditMessage::default()
EditMessageDefault == [map |-> EmptyMap, files |-> <<>>]

\* EditMessage::content
BuilderContent(b, content) == [b EXCEPT !.map = Put(b.map, "content", JString(content))]

\* EditMessage::set_embeds
BuilderSetEmbeds(b, embeds) == [b EXCEPT !.map = Put(b.map, "embeds", JArray(embeds))]

\* EditMessage::add_existing_attachment
BuilderAddExistingAttachment(b, id) ==
    LET old == IF IsArray(Get(b.map, "attachments")) THEN b.map["attachments"].a ELSE <<>>
    IN  [b EXCEPT !.map =
            Put(b.map, "attachments", JArray(Append(old, JObject([id |-> JString(id)]))))]

\* EditMessage::suppress_embeds(true): the flags entry with SUPPRESS_EMBEDS (1 << 2).
BuilderSuppressEmbeds(b) == [b EXCEPT !.map = Put(b.map, "flags", JNumber(4))]

\* json::hashmap_to_json_map: the same entries, in a JSON map.
hashmap_to_json_map(h) == [k \in DOMAIN h |-> h[k]]

\* The caller-supplied closure `f` of edit: what it sets on the builder.
\* None leaves the entry as the builder was pre-filled.
Closure(content, embeds, sticker_ids) ==
    [content |-> content, embeds |-> embeds, sticker_ids |-> sticker_ids]

SmallEmbed == JObject([title |-> JString(<<"t">>)])
LargeEmbed == JObject([description |-> JString(Rep("a", EMBED_MAX_LENGTH + 1))])

Closures ==
    {Closure(None, None, None),
     Closure(Some(Edited), None, None),
     Closure(Some(Rep("a", MESSAGE_CODE_LIMIT + 1)), None, None),
     Closure(None, Some(Rep(SmallEmbed, 11)), None),
     Closure(None, Some(<<LargeEmbed>>), None),
     Closure(None, None, Some(Rep(JString(<<"1">>), STICKER_MAX_COUNT + 1)))}

\* f(&mut builder)
ApplyClosure(f, b) ==
    LET b1 == IF IsSome(f.content) THEN BuilderContent(b, f.content[1]) ELSE b
        b2 == IF IsSome(f.embeds) THEN BuilderSetEmbeds(b1, f.embeds[1]) ELSE b1
    IN  [b2 EXCEPT !.map =
            PutOpt(b2.map, "sticker_ids",
                   IF IsSome(f.sticker_ids) THEN Some(JArray(f.sticker_ids[1])) ELSE None)]

----------------------------------------------------------------------------
\* The permission gate (crate::utils::user_has_perms_cache).  The result says
\* whether the gate passed and how many times the cache's permission set
\* was resolved.

Pass == [ok |-> TRUE, lookups |-> 0]

\* The cache's resolution of the current user's permissions in the channel.
permissions_in(c, channel_id, guild_id) == c.perms

user_has_perms_cache(c, channel_id, guild_id, permission) ==
    IF guild_id = None
    THEN Pass
    ELSE [ok |-> permission \in permissions_in(c, channel_id, guild_id), lookups |-> 1]

----------------------------------------------------------------------------
\* The transport (crate::http::Http).  A request is its route and its
\* arguments; a request with a JSON body carries the staged payload.

Request(route, arg) == [route |-> route, arg |-> arg]

\* What a handler has done when it reaches its `.await` or returns early:
\* res is Pending or the error returned, lookups the permission lookups
\* made, applied whether the caller's closure ran, payload the staged
\* payload if one was built, req the request handed to the transport.
Fail(e, lookups) ==
    [res |-> e, lookups |-> lookups, applied |-> FALSE, payload |-> None, req |-> None]

Submit(req, lookups) ==
    [res |-> Pending, lookups |-> lookups, applied |-> FALSE, payload |-> None,
     req |-> Some(req)]

----------------------------------------------------------------------------
\* The operations of `impl Message`, each up to its `.await`.  m is `self`,
\* c is cache_http.cache().

\* Message::is_private
is_private(m) == m.guild_id = None

\* crosspost without the author test.
crosspost_no_exemption(m, c) ==
    LET g == IF IsSome(c) /\ IsSome(m.guild_id)
             THEN user_has_perms_cache(c[1], m.channel_id, m.guild_id, "MANAGE_MESSAGES")
             ELSE Pass
    IN  IF ~g.ok
        THEN Fail(InvalidPermissions("MANAGE_MESSAGES"), g.lookups)
        ELSE IF IsSome(m.flags) /\ "CROSSPOSTED" \in m.flags[1]
        THEN Fail(MessageAlreadyCrossposted, g.lookups)
        ELSE IF IsSome(m.flags) /\ ("IS_CROSSPOST" \in m.flags[1] \/ m.kind # "Regular")
        THEN Fail(CannotCrosspostMessage, g.lookups)
        ELSE Submit(Request("crosspost", None), g.lookups)

\* crosspost with the two flag tests in the other order.
crosspost_swapped(m, c) ==
    LET g == IF IsSome(c) /\ m.author.id # c[1].current_user_id /\ IsSome(m.guild_id)
             THEN user_has_perms_cache(c[1], m.channel_id, m.guild_id, "MANAGE_MESSAGES")
             ELSE Pass
    IN  IF ~g.ok
        THEN Fail(InvalidPermissions("MANAGE_MESSAGES"), g.lookups)
        ELSE IF IsSome(m.flags) /\ ("IS_CROSSPOST" \in m.flags[1] \/ m.kind # "Regular")
        THEN Fail(CannotCrosspostMessage, g.lookups)
        ELSE IF IsSome(m.flags) /\ "CROSSPOSTED" \in m.flags[1]
        THEN Fail(MessageAlreadyCrossposted, g.lookups)
        ELSE Submit(Request("crosspost", None), g.lookups)

\* Message::crosspost
crosspost(m, c) ==
    LET g == IF IsSome(c) /\ m.author.id # c[1].current_user_id /\ IsSome(m.guild_id)
             THEN user_has_perms_cache(c[1], m.channel_id, m.guild_id, "MANAGE_MESSAGES")
             ELSE Pass
    IN  IF ~g.ok
        THEN Fail(InvalidPermissions("MANAGE_MESSAGES"), g.lookups)
        ELSE IF IsSome(m.flags) /\ "CROSSPOSTED" \in m.flags[1]
        THEN Fail(MessageAlreadyCrossposted, g.lookups)
        ELSE IF IsSome(m.flags) /\ ("IS_CROSSPOST" \in m.flags[1] \/ m.kind # "Regular")
        THEN Fail(CannotCrosspostMessage, g.lookups)
        ELSE Submit(Request("crosspost", None), g.lookups)

\* delete without the is_private test.
delete_no_private_test(m, c) ==
    IF IsSome(c) /\ m.author.id # c[1].current_user_id
    THEN LET g == user_has_perms_cache(c[1], m.channel_id, m.guild_id, "MANAGE_MESSAGES")
         IN  IF ~g.ok
             THEN Fail(InvalidPermissions("MANAGE_MESSAGES"), g.lookups)
             ELSE Submit(Request("delete_message", None), g.lookups)
    ELSE Submit(Request("delete_message", None), 0)

\* Message::delete
delete(m, c) ==
    IF IsSome(c) /\ m.author.id # c[1].current_user_id
    THEN IF is_private(m)
         THEN Fail(NotAuthor, 0)
         ELSE LET g == user_has_perms_cache(c[1], m.channel_id, m.guild_id, "MANAGE_MESSAGES")
              IN  IF ~g.ok
                  THEN Fail(InvalidPermissions("MANAGE_MESSAGES"), g.lookups)
                  ELSE Submit(Request("delete_message", None), g.lookups)
    ELSE Submit(Request("delete_message", None), 0)

\* Message::delete_reactions
delete_reactions(m, c) ==
    LET g == IF IsSome(c)
             THEN user_has_perms_cache(c[1], m.channel_id, m.guild_id, "MANAGE_MESSAGES")
             ELSE Pass
    IN  IF ~g.ok
        THEN Fail(InvalidPermissions("MANAGE_MESSAGES"), g.lookups)
        ELSE Submit(Request("delete_message_reactions", None), g.lookups)

\* Message::delete_reaction_emoji
delete_reaction_emoji(m, c, reaction_type) ==
    LET g == IF IsSome(c)
             THEN user_has_perms_cache(c[1], m.channel_id, m.guild_id, "MANAGE_MESSAGES")
             ELSE Pass
    IN  IF ~g.ok
        THEN Fail(InvalidPermissions("MANAGE_MESSAGES"), g.lookups)
        ELSE Submit(Request("delete_message_reaction_emoji", Some(reaction_type)),
                    g.lookups)

\* The `for attachment in &self.attachments` loop of _prepare_edit_builder.
RECURSIVE AddAttachments(_, _)
AddAttachments(b, attachments) ==
    IF attachments = <<>>
    THEN b
    ELSE AddAttachments(BuilderAddExistingAttachment(b, Head(attachments).id),
                        Tail(attachments))

\* _prepare_edit_builder that does not stage the content.
_prepare_edit_builder_no_content(m) ==
    LET embeds == [i \in DOMAIN m.embeds |-> CreateEmbedFrom(m.embeds[i])]
    IN  AddAttachments(BuilderSetEmbeds(EditMessageDefault, embeds), m.attachments)

\* Message::_prepare_edit_builder
_prepare_edit_builder(m) ==
    LET b0 == EditMessageDefault
        b1 == IF m.content # <<>> THEN BuilderContent(b0, m.content) ELSE b0
        embeds == [i \in DOMAIN m.embeds |-> CreateEmbedFrom(m.embeds[i])]
        b2 == BuilderSetEmbeds(b1, embeds)
    IN  AddAttachments(b2, m.attachments)

\* Message::_send_edit, up to the await: the builder's map goes to
\* Http::edit_message_and_attachments with the builder's files.
_send_edit(m, builder) ==
    LET map == hashmap_to_json_map(builder.map)
    IN  [res |-> Pending, lookups |-> 0, applied |-> TRUE, payload |-> Some(map),
         req |-> Some(Request("edit_message_and_attachments", Some(builder.files)))]

\* edit with the author test inverted.
edit_inverted(m, c, f) ==
    IF IsSome(c) /\ m.author.id = c[1].current_user_id
    THEN Fail(InvalidUser, 0)
    ELSE _send_edit(m, ApplyClosure(f, _prepare_edit_builder(m)))

\* Message::edit
edit(m, c, f) ==
    IF IsSome(c) /\ m.author.id # c[1].current_user_id
    THEN Fail(InvalidUser, 0)
    ELSE _send_edit(m, ApplyClosure(f, _prepare_edit_builder(m)))

\* pin with the author exemption of delete and crosspost.
pin_author_exempt(m, c) ==
    LET g == IF IsSome(c) /\ m.author.id # c[1].current_user_id /\ IsSome(m.guild_id)
             THEN user_has_perms_cache(c[1], m.channel_id, m.guild_id, "MANAGE_MESSAGES")
             ELSE Pass
    IN  IF ~g.ok
        THEN Fail(InvalidPermissions("MANAGE_MESSAGES"), g.lookups)
        ELSE Submit(Request("pin_message", None), g.lookups)

\* Message::pin
pin(m, c) ==
    LET g == IF IsSome(c) /\ IsSome(m.guild_id)
             THEN user_has_perms_cache(c[1], m.channel_id, m.guild_id, "MANAGE_MESSAGES")
             ELSE Pass
    IN  IF ~g.ok
        THEN Fail(InvalidPermissions("MANAGE_MESSAGES"), g.lookups)
        ELSE Submit(Request("pin_message", None), g.lookups)

\* _react that resolves the permissions itself, without the guild test.
_react_unguarded(m, c, reaction_type) ==
    LET g == IF IsSome(c)
             THEN [ok |-> "ADD_REACTIONS" \in permissions_in(c[1], m.channel_id, m.guild_id),
                   lookups |-> 1]
             ELSE Pass
    IN  IF ~g.ok
        THEN Fail(InvalidPermissions("ADD_REACTIONS"), g.lookups)
        ELSE Submit(Request("create_reaction", Some(reaction_type)), g.lookups)

\* Message::_react
_react(m, c, reaction_type) ==
    LET g == IF IsSome(c) /\ IsSome(m.guild_id)
             THEN user_has_perms_cache(c[1], m.channel_id, m.guild_id, "ADD_REACTIONS")
             ELSE Pass
    IN  IF ~g.ok
        THEN Fail(InvalidPermissions("ADD_REACTIONS"), g.lookups)
        ELSE Submit(Request("create_reaction", Some(reaction_type)), g.lookups)

\* Message::react
react(m, c, reaction_type) == _react(m, c, reaction_type)

\* User::mention as text: the mention token <@id>.
Mention(id) == <<"<", "@">> \o id \o <<">">>

\* From<&Message> for MessageReference
MessageReferenceFrom(m) ==
    [message_id |-> Some(m.id), channel_id |-> m.channel_id, guild_id |-> m.guild_id]

\* The closure _reply hands to send_message, applied to a default
\* CreateMessage: the staged map.
ReplyBuilder(m, content, inlined) ==
    LET ref == MessageReferenceFrom(m)
        b0 == IF IsSome(inlined)
              THEN Put(Put(EmptyMap, "message_reference",
                           JObject([message_id |-> JString(ref.message_id[1]),
                                    channel_id |-> JString(ref.channel_id)])),
                       "allowed_mentions",
                       JObject([replied_user |-> JBool(inlined[1]),
                                parse |-> JArray(<<JString(<<"everyone">>),
                                                   JString(<<"users">>),
                                                   JString(<<"roles">>)>>)]))
              ELSE EmptyMap
    IN  Put(b0, "content", JString(content))

\* ChannelId::send_message: the staged map is validated by check_lengths,
\* then sent.
send_message(channel_id, map, lookups) ==
    IF check_lengths(map) # Ok
    THEN [res |-> check_lengths(map), lookups |-> lookups, applied |-> TRUE,
          payload |-> Some(map), req |-> None]
    ELSE [res |-> Pending, lookups |-> lookups, applied |-> TRUE, payload |-> Some(map),
          req |-> Some(Request("send_message", None))]

\* Message::_reply
_reply(m, c, content, inlined) ==
    LET g == IF IsSome(c) /\ IsSome(m.guild_id)
             THEN user_has_perms_cache(c[1], m.channel_id, m.guild_id, "SEND_MESSAGES")
             ELSE Pass
    IN  IF ~g.ok
        THEN Fail(InvalidPermissions("SEND_MESSAGES"), g.lookups)
        ELSE send_message(m.channel_id, ReplyBuilder(m, content, inlined), g.lookups)

\* Message::reply
reply(m, c, content) == _reply(m, c, content, Some(FALSE))

\* reply_ping that does not ping.
reply_ping_silent(m, c, content) == _reply(m, c, content, Some(FALSE))

\* Message::reply_ping
reply_ping(m, c, content) == _reply(m, c, content, Some(TRUE))

\* Message::reply_mention
reply_mention(m, c, content) ==
    _reply(m, c, Mention(m.author.id) \o <<" ">> \o content, None)

\* Message::suppress_embeds
suppress_embeds(m, c) ==
    LET g == IF IsSome(c)
             THEN user_has_perms_cache(c[1], m.channel_id, m.guild_id, "MANAGE_MESSAGES")
             ELSE Pass
        map == hashmap_to_json_map(BuilderSuppressEmbeds(EditMessageDefault).map)
    IN  IF ~g.ok
        THEN Fail(InvalidPermissions("MANAGE_MESSAGES"), g.lookups)
        ELSE IF IsSome(c) /\ m.author.id # c[1].current_user_id
        THEN Fail(NotAuthor, g.lookups)
        ELSE [res |-> Pending, lookups |-> g.lookups, applied |-> FALSE,
              payload |-> Some(map), req |-> Some(Request("edit_message", None))]

\* unpin that takes a missing cache for a missing permission.
unpin_cache_required(m, c) ==
    LET g == IF IsSome(c) /\ IsSome(m.guild_id)
             THEN user_has_perms_cache(c[1], m.channel_id, m.guild_id, "MANAGE_MESSAGES")
             ELSE [ok |-> IsSome(c), lookups |-> 0]
    IN  IF ~g.ok
        THEN Fail(InvalidPermissions("MANAGE_MESSAGES"), g.lookups)
        ELSE Submit(Request("unpin_message", None), g.lookups)

\* Message::unpin
unpin(m, c) ==
    LET g == IF IsSome(c) /\ IsSome(m.guild_id)
             THEN user_has_perms_cache(c[1], m.channel_id, m.guild_id, "MANAGE_MESSAGES")
             ELSE Pass
    IN  IF ~g.ok
        THEN Fail(InvalidPermissions("MANAGE_MESSAGES"), g.lookups)
        ELSE Submit(Request("unpin_message", None), g.lookups)

\* Cache::member: the member the cache holds for the user in the guild.
cache_member(c, guild_id, user_id) ==
    IF user_id \in DOMAIN c.members THEN Some(c.members[user_id]) ELSE None

\* member that does not look into the cache.
member_always_fetch(m, c) ==
    IF m.guild_id = None
    THEN Fail(ItemMissing, 0)
    ELSE Submit(Request("get_member", Some(<<m.guild_id[1], m.author.id>>)), 0)

\* Message::member, up to the await.  lookups counts the calls of
\* Cache::member; a member found in the cache is returned at once.
member(m, c) ==
    IF m.guild_id = None
    THEN Fail(ItemMissing, 0)
    ELSE LET guild_id == m.guild_id[1]
             found == IF IsSome(c) THEN cache_member(c[1], guild_id, m.author.id) ELSE None
             lookups == IF IsSome(c) THEN 1 ELSE 0
         IN  IF IsSome(found)
             THEN [res |-> Ok, lookups |-> lookups, applied |-> FALSE, payload |-> None,
                   req |-> None, out |-> found]
             ELSE Submit(Request("get_member", Some(<<guild_id, m.author.id>>)), lookups)

----------------------------------------------------------------------------
\* The operations after the `.await`.  r is the transport's answer: ok, and
\* the Message it returned when the route returns one.

\* _send_edit_await with the commit done field by field and stopping after
\* the content.
_send_edit_await_partial(m, r) ==
    IF r.ok
    THEN [self |-> [m EXCEPT !.content = r.value.content], res |-> Ok, out |-> None]
    ELSE [self |-> m, res |-> r.err, out |-> None]

\* Message::_send_edit, from the await on: `*self = http...await?; Ok(())`.
_send_edit_await(m, r) ==
    IF r.ok
    THEN [self |-> r.value, res |-> Ok, out |-> None]
    ELSE [self |-> m, res |-> r.err, out |-> None]

\* Message::suppress_embeds, from the await on.
suppress_embeds_await(m, r) ==
    IF r.ok
    THEN [self |-> r.value, res |-> Ok, out |-> None]
    ELSE [self |-> m, res |-> r.err, out |-> None]

\* struct Reaction, as _react builds it.
Reaction(channel_id, emoji, message_id, user_id, guild_id, partial_member) ==
    [channel_id |-> channel_id, emoji |-> emoji, message_id |-> message_id,
     user_id |-> user_id, guild_id |-> guild_id, member |-> partial_member]

\* _react_await that leaves user_id unset.
_react_await_no_user(m, c, reaction_type, r) ==
    IF r.ok
    THEN [self |-> m, res |-> Ok,
          out |-> Some(Reaction(m.channel_id, reaction_type, m.id, None,
                                m.guild_id, m.member))]
    ELSE [self |-> m, res |-> r.err, out |-> None]

\* Message::_react, from the await on: `?` on the request, then the
\* Reaction built from self, the reaction type and the user_id taken from
\* the cache before the await.
_react_await(m, c, reaction_type, r) ==
    LET user_id == IF IsSome(c) THEN Some(c[1].current_user_id) ELSE None
    IN  IF r.ok
        THEN [self |-> m, res |-> Ok,
              out |-> Some(Reaction(m.channel_id, reaction_type, m.id, user_id,
                                    m.guild_id, m.member))]
        ELSE [self |-> m, res |-> r.err, out |-> None]

\* Message::member, from the await on: what Http::get_member returned.
member_await(m, r) ==
    [self |-> m, res |-> IF r.ok THEN Ok ELSE r.err,
     out |-> IF r.ok THEN Some(r.value) ELSE None]

\* shared_await that issues the request again when it failed.
shared_await_retry(m, r) ==
    [self |-> m, res |-> IF r.ok THEN Ok ELSE Pending, out |-> None]

\* The operations that take `&self` and return what the transport returned.
shared_await(m, r) ==
    [self |-> m, res |-> IF r.ok THEN Ok ELSE r.err, out |-> None]

\* The continuation of the call `call` (its op and its request).
Resume(call, m, c, r) ==
    CASE call.op = "edit" -> _send_edit_await(m, r)
      [] call.op = "suppress_embeds" -> suppress_embeds_await(m, r)
      [] call.op = "react" -> _react_await(m, c, call.req[1].arg[1], r)
      [] call.op = "member" -> member_await(m, r)
      [] OTHER -> shared_await(m, r)

----------------------------------------------------------------------------
\* The remote service, as far as the model needs it: the Message an edit
\* request is answered with.

\* The typed Embed the service returns for a JSON embed.
EmbedFromJson(v) ==
    LET str(o) == IF IsString(o) THEN Some(o[1].s) ELSE None
        author == VGet(v, "author")
        footer == VGet(v, "footer")
        fields == VGet(v, "fields")
    IN  [author |-> IF IsObject(author) /\ IsString(VGet(author[1], "name"))
                    THEN Some([name |-> VGet(author[1], "name")[1].s])
                    ELSE None,
         description |-> str(VGet(v, "description")),
         fields |-> IF IsArray(fields)
                    THEN [i \in DOMAIN fields[1].a |->
                            [name |-> fields[1].a[i].m["name"].s,
                             value |-> fields[1].a[i].m["value"].s]]
                    ELSE <<>>,
         footer |-> IF IsObject(footer) /\ IsString(VGet(footer[1], "text"))
                    THEN Some([text |-> VGet(footer[1], "text")[1].s])
                    ELSE None,
         title |-> str(VGet(v, "title"))]

\* The Member the service returns for a user of a guild.
ServerMember(guild_id, user_id) == [user_id |-> user_id, nick |-> <<"s">>]

\* The routes answered with the edited Message.
MessageRoutes == {"edit_message_and_attachments", "edit_message"}

ServerEdit(m, body) ==
    LET content == Get(body, "content")
        embeds == Get(body, "embeds")
        suppress == IsSome(Get(body, "flags"))
    IN  [m EXCEPT
            !.content = IF IsString(content) THEN content[1].s ELSE @,
            !.embeds = IF suppress
                       THEN <<>>
                       ELSE IF IsArray(embeds)
                       THEN [i \in DOMAIN embeds[1].a |-> EmbedFromJson(embeds[1].a[i])]
                       ELSE @,
            !.flags = IF suppress
                      THEN Some((IF IsSome(@) THEN @[1] ELSE {}) \cup {"SUPPRESS_EMBEDS"})
                      ELSE @,
            !.edited_timestamp = IF IsSome(@) THEN Some(@[1] + 1) ELSE Some(1)]

----------------------------------------------------------------------------
\* The state machine.

NoCall ==
    [op |-> "none", res |-> NoResult, lookups |-> 0, applied |-> FALSE,
     payload |-> None, req |-> None, sent |-> 0, pre |-> None, resp |-> None,
     terr |-> None, out |-> None, arg |-> None]

Init ==
    /\ msg \in InitMessages
    /\ cache \in Caches
    /\ pc = "ready"
    /\ last = NoCall
    /\ ncalls = 0

\* A call of operation op with argument arg (None when it takes none)
\* whose handler ran to outcome o.
Begin(op, arg, o) ==
    /\ pc = "ready"
    /\ ncalls < MaxCalls
    /\ ncalls' = ncalls + 1
    /\ last' = [op |-> op, res |-> o.res, lookups |-> o.lookups, applied |-> o.applied,
                payload |-> o.payload, req |-> o.req,
                sent |-> IF IsSome(o.req) THEN 1 ELSE 0,
                pre |-> Some(msg), resp |-> None, terr |-> None,
                out |-> IF "out" \in DOMAIN o THEN o.out ELSE None,
                arg |-> arg]
    /\ pc' = IF o.res = Pending THEN "submitted" ELSE "ready"
    /\ UNCHANGED <<msg, cache>>

ReactionTypes == {<<"+">>, <<"-">>}
ReplyContents == {<<"h", "i">>, Rep("a", MESSAGE_CODE_LIMIT + 1)}

Crosspost == Begin("crosspost", None, crosspost(msg, cache))
Delete == Begin("delete", None, delete(msg, cache))
DeleteReactions == Begin("delete_reactions", None, delete_reactions(msg, cache))
DeleteReactionEmoji ==
    \E rt \in ReactionTypes :
        Begin("delete_reaction_emoji", Some(rt), delete_reaction_emoji(msg, cache, rt))
Edit == \E f \in Closures : Begin("edit", Some(f), edit(msg, cache, f))
Pin == Begin("pin", None, pin(msg, cache))
React == \E rt \in ReactionTypes : Begin("react", Some(rt), react(msg, cache, rt))
Reply ==
    \E content \in ReplyContents :
        Begin("reply", Some(content), reply(msg, cache, content))
ReplyPing ==
    \E content \in ReplyContents :
        Begin("reply_ping", Some(content), reply_ping(msg, cache, content))
ReplyMention ==
    \E content \in ReplyContents :
        Begin("reply_mention", Some(content), reply_mention(msg, cache, content))
SuppressEmbeds == Begin("suppress_embeds", None, suppress_embeds(msg, cache))
Unpin == Begin("unpin", None, unpin(msg, cache))

\* The transport answers the request in flight with success.
TransportOk ==
    /\ pc = "submitted"
    /\ LET returns == last.req[1].route \in MessageRoutes
           value == CASE returns -> ServerEdit(msg, last.payload[1])
                      [] last.req[1].route = "get_member" ->
                            ServerMember(last.req[1].arg[1][1], last.req[1].arg[1][2])
                      [] OTHER -> msg
           a == Resume(last, msg, cache, [ok |-> TRUE, value |-> value, err |-> Ok])
       IN  /\ msg' = a.self
           /\ last' = [last EXCEPT !.res = a.res,
                                   !.out = a.out,
                                   !.sent = IF a.res = Pending THEN @ + 1 ELSE @,
                                   !.resp = IF returns THEN Some(value) ELSE None]
           /\ pc' = IF a.res = Pending THEN "submitted" ELSE "ready"
    /\ UNCHANGED <<cache, ncalls>>

\* The transport answers the request in flight with an error.  A
\* continuation that is Pending again has issued another request.
TransportErr ==
    /\ pc = "submitted"
    /\ \E e \in HttpErrors :
        LET a == Resume(last, msg, cache, [ok |-> FALSE, value |-> msg, err |-> e])
        IN  /\ msg' = a.self
            /\ last' = [last EXCEPT !.res = a.res,
                                    !.out = a.out,
                                    !.sent = IF a.res = Pending THEN @ + 1 ELSE @,
                                    !.terr = Some(e)]
            /\ pc' = IF a.res = Pending THEN "submitted" ELSE "ready"
    /\ UNCHANGED <<cache, ncalls>>

Next ==
    \/ Crosspost
    \/ Delete
    \/ DeleteReactions
    \/ DeleteReactionEmoji
    \/ Edit
    \/ Pin
    \/ React
    \/ Reply
    \/ ReplyPing
    \/ ReplyMention
    \/ SuppressEmbeds
    \/ Unpin
    \/ TransportOk
    \/ TransportErr

Spec == Init /\ [][Next]_vars

----------------------------------------------------------------------------
\* The limit checks on their own: a payload is drawn, then one of the
\* associated functions of Message is applied to it.  last.payload is the
\* payload, last.op the function applied, last.res its Result and last.out
\* the Option overflow_length returned.

\* An embed whose tracked texts sum to exactly EMBED_MAX_LENGTH bytes, over
\* all the places check_embed_length reads.
ExactEmbed ==
    JObject([description |-> JString(Rep("a", EMBED_MAX_LENGTH - 10)),
             title |-> JString(<<"t", "t">>),
             footer |-> JObject([text |-> JString(<<"f", "f", "f">>)]),
             fields |-> JArray(<<JObject([name |-> JString(<<"n", "n">>),
                                          value |-> JString(<<"v", "v", "v">>)])>>)])

\* The same embed with three bytes more.
OverEmbed ==
    JObject([description |-> JString(Rep("a", EMBED_MAX_LENGTH - 7)),
             title |-> JString(<<"t", "t">>),
             footer |-> JObject([text |-> JString(<<"f", "f", "f">>)]),
             fields |-> JArray(<<JObject([name |-> JString(<<"n", "n">>),
                                          value |-> JString(<<"v", "v", "v">>)])>>)])

\* An embed whose only text is its author's name, as the builder stages
\* it: a JSON string, one over the limit.
AuthorEmbed ==
    JObject([author |-> JObject([name |-> JString(Rep("a", EMBED_MAX_LENGTH + 1))])])

\* An embed of 3001 two-byte characters.
TwoByteEmbed == JObject([description |-> JString(Rep("e'", (EMBED_MAX_LENGTH \div 2) + 1))])

PayloadContents ==
    {None, Some(Hello),
     Some(Rep("a", MESSAGE_CODE_LIMIT)),
     Some(Rep("a", MESSAGE_CODE_LIMIT - 1) \o <<"e'">>),
     Some(Rep("a", MESSAGE_CODE_LIMIT + 1)),
     Some(Rep("a", MESSAGE_CODE_LIMIT + 3))}

PayloadEmbeds ==
    {None, Some(<<>>), Some(<<SmallEmbed>>),
     Some(Rep(SmallEmbed, 10)),
     Some(Rep(SmallEmbed, 9) \o <<LargeEmbed>>),
     Some(Rep(SmallEmbed, 11)),
     Some(<<LargeEmbed>> \o Rep(SmallEmbed, 10)),
     Some(<<LargeEmbed>>), Some(<<ExactEmbed>>), Some(<<OverEmbed>>),
     Some(<<SmallEmbed, OverEmbed, LargeEmbed>>),
     Some(<<AuthorEmbed>>), Some(<<TwoByteEmbed>>)}

PayloadStickerIds ==
    {None,
     Some(Rep(JString(<<"1">>), STICKER_MAX_COUNT)),
     Some(Rep(JString(<<"1">>), STICKER_MAX_COUNT + 1))}

\* The JsonMap with the entries given.
Payload(content, embeds, sticker_ids) ==
    LET m0 == PutOpt(EmptyMap, "content",
                     IF IsSome(content) THEN Some(JString(content[1])) ELSE None)
        m1 == PutOpt(m0, "embeds",
                     IF IsSome(embeds) THEN Some(JArray(embeds[1])) ELSE None)
    IN  PutOpt(m1, "sticker_ids",
               IF IsSome(sticker_ids) THEN Some(JArray(sticker_ids[1])) ELSE None)

Payloads ==
    {Payload(c, e, s) : c \in PayloadContents, e \in PayloadEmbeds, s \in PayloadStickerIds}

LimitInit ==
    /\ msg = Message(U1, Hello, "Regular", None, None)
    /\ cache = None
    /\ pc = "ready"
    /\ ncalls = 0
    /\ \E map \in Payloads : last = [NoCall EXCEPT !.payload = Some(map)]

\* A function fn applied to the payload, returning res and out.
Apply(fn, res, out) ==
    /\ ncalls < MaxCalls
    /\ ncalls' = ncalls + 1
    /\ last' = [last EXCEPT !.op = fn, !.res = res, !.out = out]
    /\ UNCHANGED <<msg, cache, pc>>

CheckLengths == Apply("check_lengths", check_lengths(last.payload[1]), None)
CheckContentLength ==
    Apply("check_content_length", check_content_length(last.payload[1]), None)
CheckEmbedLength == Apply("check_embed_length", check_embed_length(last.payload[1]), None)
CheckStickerIdsLength ==
    Apply("check_sticker_ids_length", check_sticker_ids_length(last.payload[1]), None)

\* overflow_length applied to the content of the payload.
OverflowLength ==
    /\ IsString(Get(last.payload[1], "content"))
    /\ Apply("overflow_length", Ok, Some(overflow_length(last.payload[1]["content"].s)))

LimitNext ==
    \/ CheckLengths
    \/ CheckContentLength
    \/ CheckEmbedLength
    \/ CheckStickerIdsLength
    \/ OverflowLength

LimitSpec == LimitInit /\ [][LimitNext]_vars

----------------------------------------------------------------------------
\* Message::content_safe and the string functions it uses.

\* The pattern pat occurs in s at index i.
StartsWithAt(s, pat, i) ==
    /\ i + Len(pat) - 1 <= Len(s)
    /\ SubSeq(s, i, i + Len(pat) - 1) = pat

\* str::contains, for a pattern that is not empty.
contains(s, pat) == \E i \in 1..Len(s) : StartsWithAt(s, pat, i)

\* str::replace: every non-overlapping match of `from`, found left to
\* right, replaced by `to`.
RECURSIVE ReplaceFrom(_, _, _, _)
ReplaceFrom(s, from, to, i) ==
    IF i > Len(s)
    THEN <<>>
    ELSE IF StartsWithAt(s, from, i)
    THEN to \o ReplaceFrom(s, from, to, i + Len(from))
    ELSE <<s[i]>> \o ReplaceFrom(s, from, to, i + 1)

replace(s, from, to) == ReplaceFrom(s, from, to, 1)

\* String::insert(idx, ch), idx counted from 0.
insert(s, idx, ch) == SubSeq(s, 1, idx) \o <<ch>> \o SubSeq(s, idx + 1, Len(s))

\* The decimal digits of a natural number.
RECURSIVE Decimal(_)
Decimal(n) ==
    LET digit(d) == <<"0", "1", "2", "3", "4", "5", "6", "7", "8", "9">>[d + 1]
    IN  IF n < 10 THEN <<digit(n)>> ELSE Decimal(n \div 10) \o <<digit(n % 10)>>

\* format!("{:04}", n): the digits, padded with zeros to four.
Format04(n) ==
    LET d == Decimal(n)
    IN  IF Len(d) < 4 THEN Rep("0", 4 - Len(d)) \o d ELSE d

\* The zero-width space U+200B.
ZWSP == "U+200B"

AtEveryone == <<"@", "e", "v", "e", "r", "y", "o", "n", "e">>
AtHere == <<"@", "h", "e", "r", "e">>
AtDeletedRole == <<"@", "d", "e", "l", "e", "t", "e", "d", "-", "r", "o", "l", "e">>

\* RoleId::mention as text: the mention token <@&id>.
RoleMention(id) == <<"<", "@", "&">> \o id \o <<">">>

\* RoleId::to_role_cached
to_role_cached(id, c) ==
    IF id \in DOMAIN c.roles THEN Some([name |-> c.roles[id]]) ELSE None

\* ReplaceUserMentions that replaces both spellings of the mention.
RECURSIVE ReplaceUserMentionsBoth(_, _)
ReplaceUserMentionsBoth(result, mentions) ==
    IF mentions = <<>>
    THEN result
    ELSE LET u == Head(mentions)
             at_distinct == <<"@">> \o u.name \o <<"#">> \o Format04(u.discriminator)
             m0 == Mention(u.id)
         IN  ReplaceUserMentionsBoth(
                 replace(replace(result, m0, at_distinct), insert(m0, 2, "!"), at_distinct),
                 Tail(mentions))

\* The `for u in &self.mentions` loop of content_safe.
RECURSIVE ReplaceUserMentions(_, _)
ReplaceUserMentions(result, mentions) ==
    IF mentions = <<>>
    THEN result
    ELSE LET u == Head(mentions)
             at_distinct == <<"@">> \o u.name \o <<"#">> \o Format04(u.discriminator)
             m0 == Mention(u.id)
             m == IF ~contains(result, m0) THEN insert(m0, 2, "!") ELSE m0
         IN  ReplaceUserMentions(replace(result, m, at_distinct), Tail(mentions))

\* ReplaceRoleMentions that leaves the mention of a role the cache does not
\* resolve.
RECURSIVE ReplaceRoleMentionsResolved(_, _, _)
ReplaceRoleMentionsResolved(result, mention_roles, c) ==
    IF mention_roles = <<>>
    THEN result
    ELSE LET id == Head(mention_roles)
             role == to_role_cached(id, c)
             next == IF IsSome(role)
                     THEN replace(result, RoleMention(id), <<"@">> \o role[1].name)
                     ELSE result
         IN  ReplaceRoleMentionsResolved(next, Tail(mention_roles), c)

\* The `for id in &self.mention_roles` loop of content_safe.
RECURSIVE ReplaceRoleMentions(_, _, _)
ReplaceRoleMentions(result, mention_roles, c) ==
    IF mention_roles = <<>>
    THEN result
    ELSE LET id == Head(mention_roles)
             mention == RoleMention(id)
             role == to_role_cached(id, c)
             to == IF IsSome(role) THEN <<"@">> \o role[1].name ELSE AtDeletedRole
         IN  ReplaceRoleMentions(replace(result, mention, to), Tail(mention_roles), c)

\* ReplaceEveryoneHere that puts the zero-width space after every "@".
ReplaceEveryAt(result) == replace(result, <<"@">>, <<"@", ZWSP>>)

\* The last line of content_safe.
ReplaceEveryoneHere(result) ==
    replace(replace(result, AtEveryone, <<"@", ZWSP>> \o Tail(AtEveryone)),
            AtHere, <<"@", ZWSP>> \o Tail(AtHere))

\* content_safe with the everyone and here pass first.
content_safe_everyone_first(m, c) ==
    ReplaceRoleMentions(ReplaceUserMentions(ReplaceEveryoneHere(m.content), m.mentions),
                        m.mention_roles, c)

\* Message::content_safe
content_safe(m, c) ==
    ReplaceEveryoneHere(
        ReplaceRoleMentions(ReplaceUserMentions(m.content, m.mentions), m.mention_roles, c))

----------------------------------------------------------------------------
\* content_safe on its own: a message with content, mentions and role
\* mentions and a cache with roles are drawn, then content_safe is applied.
\* last.pre is the message and last.out the string returned.

R1 == <<"5">>
R2 == <<"6">>

\* The users a message mentions: one named like a mention.
MentionedUser1 == [id |-> U1, name |-> <<"b", "o", "b">>, discriminator |-> 42]
MentionedUser2 == [id |-> U2, name |-> Tail(AtHere), discriminator |-> 7]

\* The pieces contents are made of.
ContentPieces ==
    {AtEveryone, AtHere, <<"h", "i", " ">>, <<"@">>,
     Mention(U1), insert(Mention(U1), 2, "!"), Mention(U2),
     RoleMention(R1), RoleMention(R2)}

\* Pieces per content.
MaxPieces == 2

RECURSIVE Concat(_)
Concat(pieces) == IF pieces = <<>> THEN <<>> ELSE Head(pieces) \o Concat(Tail(pieces))

SafeContents ==
    {Concat(ps) : ps \in UNION {[1..n -> ContentPieces] : n \in 0..MaxPieces}}

SafeMentions ==
    {<<>>, <<MentionedUser1>>, <<MentionedUser2>>, <<MentionedUser1, MentionedUser2>>}

SafeMentionRoles == {<<>>, <<R1>>, <<R2>>, <<R1, R2>>}

\* The roles the cache resolves: R2 never, R1 not or under one of two names.
SafeRoles ==
    {NoRoles, [id \in {R1} |-> <<"m", "o", "d">>], [id \in {R1} |-> Tail(AtEveryone)]}

SafeInit ==
    /\ \E content \in SafeContents, mentions \in SafeMentions,
          mention_roles \in SafeMentionRoles :
            msg = [Message(U1, content, "Regular", None, Some(G1)) EXCEPT
                      !.mentions = mentions, !.mention_roles = mention_roles]
    /\ \E roles \in SafeRoles :
            cache = Some([current_user_id |-> U1, perms |-> {}, roles |-> roles])
    /\ pc = "ready"
    /\ ncalls = 0
    /\ last = NoCall

ContentSafe ==
    /\ ncalls < MaxCalls
    /\ ncalls' = ncalls + 1
    /\ last' = [NoCall EXCEPT !.op = "content_safe",
                              !.pre = Some(msg),
                              !.res = Ok,
                              !.out = Some(content_safe(msg, cache[1]))]
    /\ UNCHANGED <<msg, cache, pc>>

\* content_safe applied to the string content_safe returned: the message
\* of the second call has that string for content, the same mentions and
\* role mentions, and the cache is the same.  msg keeps the first content.
ContentSafeAgain ==
    /\ last.op = "content_safe"
    /\ LET again == [msg EXCEPT !.content = last.out[1]]
       IN  last' = [last EXCEPT !.op = "content_safe_again",
                               !.pre = Some(again),
                               !.out = Some(content_safe(again, cache[1]))]
    /\ UNCHANGED <<msg, cache, pc, ncalls>>

SafeNext ==
    \/ ContentSafe
    \/ ContentSafeAgain

SafeSpec == SafeInit /\ [][SafeNext]_vars

----------------------------------------------------------------------------
\* Message::transform_content, called on a message as it is received.

\* Display for User: the mention of the user.
UserDisplay(user) == Mention(user.id)

\* The text of the pin notice after the author.
PinnedText ==
    <<" ", "p", "i", "n", "n", "e", "d", " ", "a", " ", "m", "e", "s", "s",
      "a", "g", "e", " ", "t", "o", " ", "t", "h", "i", "s", " ", "c", "h",
      "a", "n", "n", "e", "l", ".", " ", "S", "e", "e", " ", "a", "l", "l",
      " ", "t", "h", "e", " ", "p", "i", "n", "s", ".">>

DollarUser == <<"$", "u", "s", "e", "r">>

\* constants::JOIN_MESSAGES: a pool of templates, with the placeholder
\* once, not at all, and twice.
JOIN_MESSAGES ==
    <<DollarUser \o <<" ", "j", "o", "i", "n", "e", "d">>,
      <<"w", "e", "l", "c", "o", "m", "e">>,
      DollarUser \o <<",", " ">> \o DollarUser \o <<"!">>>>

\* transform_content that keeps a content the server supplied.
transform_content_keep(m) ==
    IF m.kind = "PinsAdd" /\ m.content = <<>>
    THEN [m EXCEPT !.content = UserDisplay(m.author) \o PinnedText]
    ELSE m

\* transform_content that picks the template by the length of the content.
transform_content_by_length(m) ==
    IF m.kind = "MemberJoin"
    THEN LET chosen == JOIN_MESSAGES[(Len(m.content) % Len(JOIN_MESSAGES)) + 1]
         IN  [m EXCEPT !.content = replace(chosen, DollarUser, Mention(m.author.id))]
    ELSE m

\* transform_content that also marks the message as edited.
transform_content_edited(m) ==
    IF m.kind = "PinsAdd"
    THEN [m EXCEPT !.content = UserDisplay(m.author) \o PinnedText,
                   !.edited_timestamp = Some(1)]
    ELSE m

\* Message::transform_content.  The timestamps of the model are not
\* negative, so `as usize` keeps the seconds as they are.
transform_content(m) ==
    CASE m.kind = "PinsAdd" ->
            [m EXCEPT !.content = UserDisplay(m.author) \o PinnedText]
      [] m.kind = "MemberJoin" ->
            LET sec == m.timestamp
                chosen == JOIN_MESSAGES[(sec % Len(JOIN_MESSAGES)) + 1]
            IN  [m EXCEPT !.content =
                    IF contains(chosen, DollarUser)
                    THEN replace(chosen, DollarUser, Mention(m.author.id))
                    ELSE chosen]
      [] OTHER -> m

\* Calls of transform_content per behaviour.
MaxTransforms == 2

\* The last second of the timestamps drawn.
MaxTimestamp == 5

ReceivedTypes == {"Regular", "PinsAdd", "MemberJoin"}

TransformInit ==
    /\ \E a \in UserIds, c \in {<<>>, Hello}, k \in ReceivedTypes,
          g \in {None, Some(G1)}, t \in 0..MaxTimestamp :
            msg = [Message(a, c, k, None, g) EXCEPT !.timestamp = t]
    /\ cache = None
    /\ pc = "ready"
    /\ ncalls = 0
    /\ last = NoCall

TransformContent ==
    /\ ncalls < MaxTransforms
    /\ ncalls' = ncalls + 1
    /\ msg' = transform_content(msg)
    /\ last' = [NoCall EXCEPT !.op = "transform_content", !.pre = Some(msg), !.res = Ok]
    /\ UNCHANGED <<cache, pc>>

TransformNext == TransformContent

TransformSpec == TransformInit /\ [][TransformNext]_vars

----------------------------------------------------------------------------
\* Message::member: a message and a cache that holds members or not are
\* drawn, member is called and the transport answers.

\* The Member the cache holds for a user.
CachedMember(user_id) == [user_id |-> user_id, nick |-> <<"c">>]

\* The members of the guild the cache holds: none, one user's, or both.
MemberMaps == {[id \in ids |-> CachedMember(id)] : ids \in {{}, {U1}, {U2}, UserIds}}

MemberCaches ==
    {None} \cup {Some([current_user_id |-> U1, perms |-> {}, roles |-> NoRoles,
                       members |-> mm]) : mm \in MemberMaps}

MemberInit ==
    /\ msg \in InitMessages
    /\ cache \in MemberCaches
    /\ pc = "ready"
    /\ last = NoCall
    /\ ncalls = 0

Member == Begin("member", None, member(msg, cache))

MemberNext ==
    \/ Member
    \/ TransportOk
    \/ TransportErr

MemberSpec == MemberInit /\ [][MemberNext]_vars

----------------------------------------------------------------------------
\* Names the properties share.

\* `self` as it was when the call in `last` started.
Pre == last.pre[1]

HasCache == IsSome(cache)
CurrentUserIsAuthor == HasCache /\ Pre.author.id = cache[1].current_user_id
CachedPermission(p) == HasCache /\ p \in cache[1].perms
HasFlag(m, f) == IsSome(m.flags) /\ f \in m.flags[1]
ReplyOps == {"reply", "reply_ping", "reply_mention"}

----------------------------------------------------------------------------
\* C1.  The commit of edit and suppress_embeds is atomic: while the request
\* is in flight the caller's Message is the one before the call; when the
\* call returned Ok the Message is the one the transport returned, in every
\* field; when the call failed, at the local gate or at the transport, the
\* Message is the one before the call.  No other value is reachable.
C1_AtomicCommit ==
    last.op \in {"edit", "suppress_embeds"} =>
        /\ pc = "submitted" => msg = Pre
        /\ (pc = "ready" /\ last.res = Ok) => (IsSome(last.resp) /\ msg = last.resp[1])
        /\ (pc = "ready" /\ last.res # Ok) => msg = Pre

\* An edit went through and replaced the Message by a different one.
C1_Witness ==
    /\ last.op = "edit"
    /\ pc = "ready"
    /\ last.res = Ok
    /\ msg # Pre
    /\ msg.content # Pre.content
    /\ msg.edited_timestamp # Pre.edited_timestamp

----------------------------------------------------------------------------
\* C2 (as amended).  Without a cache every mutator operation skips local
\* authorization: it makes no permission lookup, never returns
\* InvalidPermissions, InvalidUser or NotAuthor, and hands its request to
\* the transport unless a crosspost flag pre-check fails or, for the three
\* reply operations, the limit validation of send_message rejects the
\* payload.
C2_NoCacheSkipsAuthorization ==
    (~HasCache /\ last.op # "none") =>
        /\ last.res.e \notin AuthorizationErrors
        /\ last.lookups = 0
        /\ \/ last.sent = 1
           \/ /\ last.op = "crosspost"
              /\ last.res \in {MessageAlreadyCrossposted, CannotCrosspostMessage}
           \/ /\ last.op \in ReplyOps
              /\ last.res.e \in ValidationErrors
              /\ last.res = check_lengths(last.payload[1])

\* C2 as the claim states it: without a cache every mutator operation hands
\* its request to the transport unless a crosspost flag pre-check fails.
C2_Original ==
    (~HasCache /\ last.op # "none") =>
        /\ last.res.e \notin AuthorizationErrors
        /\ \/ last.sent = 1
           \/ /\ last.op = "crosspost"
              /\ last.res \in {MessageAlreadyCrossposted, CannotCrosspostMessage}

\* Without a cache, suppress_embeds on a guild message was submitted.
C2_Witness ==
    /\ ~HasCache
    /\ last.op = "suppress_embeds"
    /\ IsSome(Pre.guild_id)
    /\ last.sent = 1
    /\ last.req[1].route = "edit_message"

----------------------------------------------------------------------------
\* C3 (as amended).  The crosspost flag pre-check runs after the local
\* authorization.  When the authorization does not deny the call (no cache,
\* the current user is the author, the message is private, or the cache
\* grants MANAGE_MESSAGES), crosspost on a message flagged CROSSPOSTED
\* returns MessageAlreadyCrossposted, and on a Regular message flagged
\* IS_CROSSPOST and not CROSSPOSTED returns CannotCrosspostMessage; when the
\* authorization denies the call it returns InvalidPermissions instead.  In
\* all these cases no request is made.
C3_Denied ==
    /\ HasCache
    /\ ~CurrentUserIsAuthor
    /\ IsSome(Pre.guild_id)
    /\ ~CachedPermission("MANAGE_MESSAGES")

----------------------------------------------------------------------------
\* C4.  A message whose type is not Regular is never crossposted: whatever
\* its flags field, None included, crosspost on a message that is not
\* Regular and not flagged CROSSPOSTED returns CannotCrosspostMessage and
\* makes no request.
C4_NonRegularNeverCrossposted ==
    (last.op = "crosspost" /\ Pre.kind # "Regular" /\ ~HasFlag(Pre, "CROSSPOSTED")) =>
        (last.sent = 0 /\ last.res = CannotCrosspostMessage)

----------------------------------------------------------------------------
\* C5.  Edit validates before it submits: when the payload edit built
\* violates a limit, edit returns the error of check_lengths and the payload
\* is not sent.
C5_EditValidatesBeforeSubmit ==
    (last.op = "edit" /\ IsSome(last.payload) /\ check_lengths(last.payload[1]) # Ok) =>
        (last.sent = 0 /\ last.res = check_lengths(last.payload[1]))

----------------------------------------------------------------------------
\* C6.  With a cache, edit by a user who is not the author returns
\* InvalidUser before the caller's closure is applied and before any
\* request, and leaves the Message as it was; edit by the author passes the
\* gate, on a guild message and on a private one: the closure is applied and
\* the request is made.
C6_EditAuthorGate ==
    (last.op = "edit" /\ HasCache) =>
        IF ~CurrentUserIsAuthor
        THEN /\ last.res = InvalidUser
             /\ ~last.applied
             /\ last.payload = None
             /\ last.sent = 0
             /\ pc = "ready"
             /\ msg = Pre
        ELSE /\ last.res.e \notin AuthorizationErrors
             /\ last.applied
             /\ last.sent = 1

\* A non-author's edit was refused.
C6_Witness ==
    /\ last.op = "edit"
    /\ HasCache
    /\ ~CurrentUserIsAuthor
    /\ CachedPermission("MANAGE_MESSAGES")
    /\ last.res = InvalidUser

----------------------------------------------------------------------------
\* C7.  With a cache, delete of a private message by a user who is not its
\* author returns NotAuthor whatever the cached permissions, without a
\* permission lookup and without a request.
C7_DeletePrivateNotAuthor ==
    (last.op = "delete" /\ HasCache /\ ~CurrentUserIsAuthor /\ Pre.guild_id = None) =>
        /\ last.res = NotAuthor
        /\ last.lookups = 0
        /\ last.sent = 0

\* The refusal happened with every permission cached.
C7_Witness ==
    /\ last.op = "delete"
    /\ HasCache
    /\ ~CurrentUserIsAuthor
    /\ Pre.guild_id = None
    /\ cache[1].perms = Permissions
    /\ last.res = NotAuthor

----------------------------------------------------------------------------
\* C8.  With a cache, delete and crosspost by the author make no permission
\* lookup and never return InvalidPermissions, whatever the cached
\* permissions; by another user on a guild message both look the permission
\* up and return InvalidPermissions(MANAGE_MESSAGES), without a request,
\* when the cache does not grant it.
C8_AuthorExemption ==
    (last.op \in {"delete", "crosspost"} /\ HasCache) =>
        /\ CurrentUserIsAuthor =>
              (last.lookups = 0 /\ last.res.e # "InvalidPermissions")
        /\ (~CurrentUserIsAuthor /\ IsSome(Pre.guild_id)) =>
              /\ last.lookups = 1
              /\ IF CachedPermission("MANAGE_MESSAGES")
                 THEN last.res.e # "InvalidPermissions"
                 ELSE last.res = InvalidPermissions("MANAGE_MESSAGES") /\ last.sent = 0

\* The author deleted a guild message without holding MANAGE_MESSAGES.
C8_Witness ==
    /\ last.op = "delete"
    /\ CurrentUserIsAuthor
    /\ IsSome(Pre.guild_id)
    /\ ~CachedPermission("MANAGE_MESSAGES")
    /\ last.sent = 1
    /\ last.res = Ok

----------------------------------------------------------------------------
\* C9.  Pins and reactions grant the author no exemption: with a cache and
\* a guild message, pin and unpin return InvalidPermissions(MANAGE_MESSAGES)
\* when the cache does not grant MANAGE_MESSAGES, and react returns
\* InvalidPermissions(ADD_REACTIONS) when it does not grant ADD_REACTIONS,
\* whoever the author is; no request is made.
C9_NoAuthorExemption ==
    (HasCache /\ last.op # "none" /\ IsSome(Pre.guild_id)) =>
        /\ (last.op \in {"pin", "unpin"} /\ ~CachedPermission("MANAGE_MESSAGES")) =>
              (last.res = InvalidPermissions("MANAGE_MESSAGES") /\ last.sent = 0)
        /\ (last.op = "react" /\ ~CachedPermission("ADD_REACTIONS")) =>
              (last.res = InvalidPermissions("ADD_REACTIONS") /\ last.sent = 0)

\* The author's own pin was refused.
C9_Witness ==
    /\ last.op = "pin"
    /\ CurrentUserIsAuthor
    /\ IsSome(Pre.guild_id)
    /\ last.res = InvalidPermissions("MANAGE_MESSAGES")
    /\ last.sent = 0

----------------------------------------------------------------------------
\* C10.  With a cache and a message without guild id, the operations that
\* use the permission gate (pin, unpin, react, the replies, delete_reactions,
\* delete_reaction_emoji, suppress_embeds) make no permission lookup and do
\* not return InvalidPermissions.
GateOps ==
    {"pin", "unpin", "react", "delete_reactions", "delete_reaction_emoji",
     "suppress_embeds"} \cup ReplyOps

C10_PrivateSkipsGate ==
    (last.op \in GateOps /\ HasCache /\ Pre.guild_id = None) =>
        (last.lookups = 0 /\ last.res.e # "InvalidPermissions")

\* delete_reactions on a private message went to the transport although
\* the cache grants nothing.
C10_Witness ==
    /\ last.op = "delete_reactions"
    /\ HasCache
    /\ cache[1].perms = {}
    /\ Pre.guild_id = None
    /\ last.sent = 1

----------------------------------------------------------------------------
\* C11.  With a cache, suppress_embeds is locally permitted when the current
\* user is the author of the message or holds MANAGE_MESSAGES: if at least
\* one of the two holds the call returns neither InvalidPermissions nor
\* NotAuthor and submits the edit request; if neither holds it fails
\* locally.
C11_SuppressEmbedsAuthorOrPermission ==
    (last.op = "suppress_embeds" /\ HasCache) =>
        IF CurrentUserIsAuthor \/ CachedPermission("MANAGE_MESSAGES")
        THEN /\ last.res.e \notin {"InvalidPermissions", "NotAuthor"}
             /\ last.sent = 1
        ELSE /\ last.res.e \in {"InvalidPermissions", "NotAuthor"}
             /\ last.sent = 0

----------------------------------------------------------------------------
\* C12.  No operation retries: a call issues at most one request to the
\* transport, a call awaiting the transport has issued exactly one, and
\* when the transport answered with an error the call is over, its result
\* is that error as the transport gave it, and the Message is the one
\* before the call.
C12_NoRetries ==
    /\ last.sent <= 1
    /\ pc = "submitted" => last.sent = 1
    /\ IsSome(last.terr) =>
          /\ pc = "ready"
          /\ last.res = last.terr[1]
          /\ last.sent = 1
          /\ last.out = None
          /\ msg = Pre

\* The create-reaction request of a react failed with the second transport
\* error.
C12_Witness ==
    /\ last.op = "react"
    /\ IsSome(last.terr)
    /\ last.terr[1] = Err("Http", 500, "")
    /\ last.res = Err("Http", 500, "")
    /\ pc = "ready"

----------------------------------------------------------------------------
\* Names the properties of the limit checks share.

\* The payload the function was applied to, and its entries.
In == last.payload[1]
InContent == Get(In, "content")
InEmbeds == Get(In, "embeds")
InStickerIds == Get(In, "sticker_ids")

\* The payload's content has more scalar values than the limit.
ContentOver == IsString(InContent) /\ Len(InContent[1].s) > 2000

\* The payload has more than ten embeds.
EmbedsOver == IsArray(InEmbeds) /\ Len(InEmbeds[1].a) > 10

\* The length in bytes of a JSON string, 0 for anything else.
StrLen(o) == IF IsString(o) THEN ByteLen(o[1].s) ELSE 0

\* The summed length of the tracked texts of an embed: author name,
\* description, every field's name and value, footer text, title.
TrackedLength(embed) ==
    LET author == VGet(embed, "author")
        footer == VGet(embed, "footer")
        fields == VGet(embed, "fields")
    IN  (IF IsObject(author) THEN StrLen(VGet(author[1], "name")) ELSE 0)
        + StrLen(VGet(embed, "description"))
        + (IF IsArray(fields) THEN FieldsTotal(fields[1].a) ELSE 0)
        + (IF IsObject(footer) THEN StrLen(VGet(footer[1], "text")) ELSE 0)
        + StrLen(VGet(embed, "title"))

----------------------------------------------------------------------------
\* C13.  check_lengths succeeds iff the content, embed and sticker checks
\* all succeed; otherwise it returns the error of the first failing check
\* in the order content, embed, sticker: over-long content yields
\* MessageTooLong whatever the embeds, and more than ten embeds under
\* content within the limit yield EmbedAmount whatever the sticker ids.
C13_CheckLengthsOrder ==
    last.op = "check_lengths" =>
        LET c == check_content_length(In)
            e == check_embed_length(In)
            k == check_sticker_ids_length(In)
        IN  /\ (last.res = Ok) <=> (c = Ok /\ e = Ok /\ k = Ok)
            /\ c # Ok => last.res = c
            /\ (c = Ok /\ e # Ok) => last.res = e
            /\ (c = Ok /\ e = Ok) => last.res = k
            /\ ContentOver => last.res.e = "MessageTooLong"
            /\ (~ContentOver /\ EmbedsOver) => last.res = EmbedAmount

\* Over-long content, eleven embeds and too many sticker ids at once:
\* check_lengths returned the content error.
C13_Witness ==
    /\ last.op = "check_lengths"
    /\ ContentOver
    /\ EmbedsOver
    /\ IsArray(InStickerIds) /\ Len(InStickerIds[1].a) > 3
    /\ last.res.e = "MessageTooLong"

----------------------------------------------------------------------------
\* C14.  overflow_length returns None iff the content has at most 2000
\* scalar values, and Some(count - 2000) otherwise; check_content_length
\* turns the latter into MessageTooLong(count - 2000).
C14_OverflowLength ==
    /\ last.op = "overflow_length" =>
          LET count == Len(InContent[1].s)
          IN  /\ (last.out[1] = None) <=> (count <= 2000)
              /\ count > 2000 => last.out[1] = Some(count - 2000)
    /\ last.op = "check_content_length" =>
          IF ContentOver
          THEN last.res = MessageTooLong(Len(InContent[1].s) - 2000)
          ELSE last.res = Ok

\* A content of 2001 scalar values yields Some(1).
C14_Witness ==
    /\ last.op = "overflow_length"
    /\ Len(InContent[1].s) = 2001
    /\ last.out = Some(Some(1))

----------------------------------------------------------------------------
\* C15.  For a payload whose embeds entry is an array of N embeds,
\* check_embed_length returns EmbedAmount iff N > 10, whatever the embeds
\* hold.
C15_EmbedAmount ==
    (last.op = "check_embed_length" /\ IsArray(InEmbeds)) =>
        ((last.res = EmbedAmount) <=> (Len(InEmbeds[1].a) > 10))

\* Eleven embeds, the first of them oversized: the result is EmbedAmount.
C15_Witness ==
    /\ last.op = "check_embed_length"
    /\ IsArray(InEmbeds)
    /\ Len(InEmbeds[1].a) = 11
    /\ TrackedLength(InEmbeds[1].a[1]) > 6000
    /\ last.res = EmbedAmount

----------------------------------------------------------------------------
\* C16.  For a payload with a single embed, check_embed_length returns
\* EmbedTooLarge(L - 6000) iff the summed length L of the embed's tracked
\* texts, the author name among them, exceeds 6000, and Ok otherwise; with
\* up to ten embeds the error is that of the first embed over the limit.
C16_EmbedTooLarge ==
    (last.op = "check_embed_length" /\ IsArray(InEmbeds) /\ Len(InEmbeds[1].a) <= 10) =>
        LET embeds == InEmbeds[1].a
            over == {i \in DOMAIN embeds : TrackedLength(embeds[i]) > 6000}
        IN  IF over = {}
            THEN last.res = Ok
            ELSE \E i \in over :
                    /\ \A j \in over : i <= j
                    /\ last.res = EmbedTooLarge(TrackedLength(embeds[i]) - 6000)

----------------------------------------------------------------------------
\* C17.  A react that succeeded returned a Reaction built locally: its
\* channel_id, message_id, guild_id and member are the message's, its emoji
\* is the reaction type asked for, its user_id is None without a cache and
\* Some(current user id) with one.  A react that failed, or is still
\* awaiting the transport, returned no Reaction.
C17_ReactReturnsReaction ==
    last.op = "react" =>
        /\ (pc = "ready" /\ last.res = Ok) =>
              /\ IsSome(last.out)
              /\ last.out[1].channel_id = Pre.channel_id
              /\ last.out[1].message_id = Pre.id
              /\ last.out[1].guild_id = Pre.guild_id
              /\ last.out[1].member = Pre.member
              /\ last.out[1].emoji = last.arg[1]
              /\ last.out[1].user_id =
                    IF HasCache THEN Some(cache[1].current_user_id) ELSE None
        /\ last.res # Ok => last.out = None

\* With a cache, a react on a guild message succeeded and its Reaction
\* carries the current user and the message's member.
C17_Witness ==
    /\ last.op = "react"
    /\ last.res = Ok
    /\ HasCache
    /\ IsSome(Pre.guild_id)
    /\ IsSome(last.out)
    /\ last.out[1].user_id = Some(U1)
    /\ IsSome(last.out[1].member)
    /\ last.out[1].emoji = <<"-">>

----------------------------------------------------------------------------
\* C18.  The three reply operations differ only in the mentions: reply
\* stages the given content, a reference to the message and an
\* allowed-mentions override with replied_user false and everyone, users
\* and roles parsed; reply_ping stages the same with replied_user true;
\* reply_mention stages the content prefixed by the author's mention token
\* and a space, and nothing else.  All three fail with InvalidPermissions
\* exactly when a cache is present, the message has a guild id and the
\* cache does not grant SEND_MESSAGES.
C18_ReplyFlavours ==
    last.op \in ReplyOps =>
        LET denied == HasCache /\ IsSome(Pre.guild_id) /\ ~CachedPermission("SEND_MESSAGES")
            override(ping) ==
                JObject([replied_user |-> JBool(ping),
                         parse |-> JArray(<<JString(<<"everyone">>), JString(<<"users">>),
                                            JString(<<"roles">>)>>)])
        IN  /\ denied <=> last.res = InvalidPermissions("SEND_MESSAGES")
            /\ denied => (last.payload = None /\ last.sent = 0)
            /\ ~denied =>
                  /\ IsSome(last.payload)
                  /\ IF last.op = "reply_mention"
                     THEN /\ DOMAIN last.payload[1] = {"content"}
                          /\ last.payload[1]["content"] =
                                JString(<<"<", "@">> \o Pre.author.id \o <<">", " ">>
                                        \o last.arg[1])
                     ELSE /\ DOMAIN last.payload[1] =
                                {"content", "message_reference", "allowed_mentions"}
                          /\ last.payload[1]["content"] = JString(last.arg[1])
                          /\ last.payload[1]["message_reference"].m.message_id =
                                JString(Pre.id)
                          /\ last.payload[1]["allowed_mentions"] =
                                override(last.op = "reply_ping")

\* A reply_ping was submitted with the override that pings.
C18_Witness ==
    /\ last.op = "reply_ping"
    /\ last.sent = 1
    /\ IsSome(last.payload)
    /\ last.payload[1]["allowed_mentions"].m.replied_user = JBool(TRUE)
    /\ last.payload[1]["content"] = JString(<<"h", "i">>)

----------------------------------------------------------------------------
\* C19.  The edit builder is filled from the message before the closure
\* runs.  What the closure does not set is staged as the message has it:
\* the content when it is not empty, and no content entry when it is
\* empty; all the embeds, in order; the ids of all the attachments, in
\* order.
C19_EditPrefill ==
    (last.op = "edit" /\ IsSome(last.payload)) =>
        LET f == last.arg[1]
            p == last.payload[1]
            text(o) == IF IsSome(o) THEN Some(JString(o[1])) ELSE None
        IN  /\ f.content = None =>
                  IF Pre.content # <<>>
                  THEN Get(p, "content") = Some(JString(Pre.content))
                  ELSE "content" \notin DOMAIN p
            /\ f.embeds = None =>
                  /\ IsArray(Get(p, "embeds"))
                  /\ Len(p["embeds"].a) = Len(Pre.embeds)
                  /\ \A i \in DOMAIN Pre.embeds :
                        /\ VGet(p["embeds"].a[i], "title") = text(Pre.embeds[i].title)
                        /\ VGet(p["embeds"].a[i], "description") =
                              text(Pre.embeds[i].description)
            /\ Get(p, "attachments") =
                  Some(JArray([i \in DOMAIN Pre.attachments |->
                                  JObject([id |-> JString(Pre.attachments[i].id)])]))

\* An edit whose closure set nothing staged the content "hello", both
\* embeds and both attachments.
C19_Witness ==
    /\ last.op = "edit"
    /\ IsSome(last.payload)
    /\ last.arg[1] = Closure(None, None, None)
    /\ Pre.content = Hello
    /\ last.payload[1]["content"] = JString(Hello)
    /\ Len(last.payload[1]["embeds"].a) = 2
    /\ Len(last.payload[1]["attachments"].a) = 2

----------------------------------------------------------------------------
\* Names the properties of content_safe share.

\* The number of places where pat occurs in s.
Occurrences(s, pat) == Cardinality({i \in 1..Len(s) : StartsWithAt(s, pat, i)})

----------------------------------------------------------------------------
\* C20.  content_safe neutralises everyone and here mentions as its last
\* pass.  The string returned holds no "@everyone" and no "@here",
\* whatever the content, the mentions and the cache, user and role names
\* that spell one included.  When nothing is mentioned the string returned
\* is the content with a zero-width space after the "@" of every
\* "@everyone" and "@here" and nothing else changed; "@everyone" yields
\* "@", zero-width space, "everyone".
C20_EveryoneHereNeutralised ==
    last.op = "content_safe" =>
        LET out == last.out[1]
            strip(x) == x # ZWSP
        IN  /\ ~contains(out, AtEveryone)
            /\ ~contains(out, AtHere)
            /\ (Pre.mentions = <<>> /\ Pre.mention_roles = <<>>) =>
                  /\ SelectSeq(out, strip) = Pre.content
                  /\ Len(out) = Len(Pre.content) + Occurrences(Pre.content, AtEveryone)
                                     + Occurrences(Pre.content, AtHere)
                  /\ \A i \in 1..Len(out) : out[i] = ZWSP => (i > 1 /\ out[i - 1] = "@")
            /\ (Pre.content = AtEveryone /\ Pre.mentions = <<>>) =>
                  out = <<"@", ZWSP, "e", "v", "e", "r", "y", "o", "n", "e">>

\* The mention of a user named "here" was replaced by "@here#0007", which
\* the last pass then neutralised.
C20_Witness ==
    /\ last.op = "content_safe"
    /\ Pre.content = Mention(U2)
    /\ Pre.mentions = <<MentionedUser2>>
    /\ last.out[1] = <<"@", ZWSP, "h", "e", "r", "e", "#", "0", "0", "0", "7">>

----------------------------------------------------------------------------
\* Names the properties of the mention passes share.

\* The user u is in the mentions of m.
Listed(m, u) == \E i \in DOMAIN m.mentions : m.mentions[i] = u

\* The role id is in the role mentions of m.
ListedRole(m, id) == \E i \in DOMAIN m.mention_roles : m.mention_roles[i] = id

\* What "@bob#0042" and "@here#0007" are once the last pass has run.
Display1 == <<"@", "b", "o", "b", "#", "0", "0", "4", "2">>
Display2 == <<"@", ZWSP, "h", "e", "r", "e", "#", "0", "0", "0", "7">>

Plain1 == <<"<", "@", "7", ">">>
Nick1 == <<"<", "@", "!", "7", ">">>
Plain2 == <<"<", "@", "8", ">">>
RoleToken1 == <<"<", "@", "&", "5", ">">>
RoleToken2 == <<"<", "@", "&", "6", ">">>

----------------------------------------------------------------------------
\* C21.  For each mentioned user content_safe replaces one spelling of the
\* user's mention: the plain one <@id> if the text holds it, otherwise the
\* nickname one <@!id>.  Every occurrence of that spelling becomes
\* @name#dddd, the discriminator padded with zeros to four digits, and the
\* occurrences of the other spelling stay.  The mention of a user who is
\* not listed stays.
C21_UserMentionSpelling ==
    last.op = "content_safe" =>
        LET in == Pre.content
            out == last.out[1]
            plain1 == Occurrences(in, Plain1)
            nick1 == Occurrences(in, Nick1)
            plain2 == Occurrences(in, Plain2)
        IN  /\ IF Listed(Pre, MentionedUser1)
               THEN IF plain1 > 0
                    THEN /\ Occurrences(out, Plain1) = 0
                         /\ Occurrences(out, Nick1) = nick1
                         /\ Occurrences(out, Display1) = plain1
                    ELSE /\ Occurrences(out, Nick1) = 0
                         /\ Occurrences(out, Display1) = nick1
               ELSE /\ Occurrences(out, Plain1) = plain1
                    /\ Occurrences(out, Nick1) = nick1
                    /\ Occurrences(out, Display1) = 0
            /\ IF Listed(Pre, MentionedUser2)
               THEN /\ Occurrences(out, Plain2) = 0
                    /\ Occurrences(out, Display2) = plain2
               ELSE /\ Occurrences(out, Plain2) = plain2
                    /\ Occurrences(out, Display2) = 0

\* The content held both spellings of the mention of a listed user: the
\* plain one was replaced, the nickname one stayed.
C21_Witness ==
    /\ last.op = "content_safe"
    /\ Pre.content = Nick1 \o Plain1
    /\ Pre.mentions = <<MentionedUser1, MentionedUser2>>
    /\ last.out[1] = Nick1 \o Display1

----------------------------------------------------------------------------
\* C22.  content_safe never fails on roles: every occurrence of the mention
\* of a listed role becomes "@" and the role's name when the cache resolves
\* the role, and "@deleted-role" when it does not, so that no mention of a
\* listed role is left in the string returned; the mention of a role that
\* is not listed stays.  A name that spells "everyone" is then neutralised
\* by the last pass.
C22_RoleMentions ==
    last.op = "content_safe" =>
        LET in == Pre.content
            out == last.out[1]
            roles == cache[1].roles
            tok1 == IF ListedRole(Pre, R1) THEN Occurrences(in, RoleToken1) ELSE 0
            tok2 == IF ListedRole(Pre, R2) THEN Occurrences(in, RoleToken2) ELSE 0
            named(name) == R1 \in DOMAIN roles /\ roles[R1] = name
        IN  /\ last.res = Ok
            /\ ListedRole(Pre, R1) => Occurrences(out, RoleToken1) = 0
            /\ ListedRole(Pre, R2) => Occurrences(out, RoleToken2) = 0
            /\ ~ListedRole(Pre, R1) =>
                  Occurrences(out, RoleToken1) = Occurrences(in, RoleToken1)
            /\ ~ListedRole(Pre, R2) =>
                  Occurrences(out, RoleToken2) = Occurrences(in, RoleToken2)
            /\ Occurrences(out, <<"@", "m", "o", "d">>) =
                  IF named(<<"m", "o", "d">>) THEN tok1 ELSE 0
            /\ Occurrences(out, <<"@", ZWSP, "e", "v", "e", "r", "y", "o", "n", "e">>) =
                  Occurrences(in, AtEveryone)
                  + (IF named(<<"e", "v", "e", "r", "y", "o", "n", "e">>) THEN tok1 ELSE 0)
            /\ Occurrences(out, AtDeletedRole) =
                  tok2 + (IF R1 \in DOMAIN roles THEN 0 ELSE tok1)

\* A resolved role and an unresolved one, both listed and both mentioned.
C22_Witness ==
    /\ last.op = "content_safe"
    /\ Pre.content = RoleToken2 \o RoleToken1
    /\ Pre.mention_roles = <<R1, R2>>
    /\ R1 \in DOMAIN cache[1].roles
    /\ last.out[1] = AtDeletedRole \o <<"@", "m", "o", "d">>

----------------------------------------------------------------------------
\* C23.  content_safe is idempotent on text that is already safe: when the
\* content holds no user or role mention and no "@everyone", content_safe
\* applied to the string content_safe returned, with the same mentions,
\* role mentions and cache, returns that string.
C23_Idempotent ==
    (last.op = "content_safe_again"
        /\ ~contains(msg.content, <<"<", "@">>)
        /\ ~contains(msg.content, AtEveryone)) =>
            /\ Pre.content = content_safe(msg, cache[1])
            /\ last.out[1] = Pre.content

\* A content with "@here" and no mention: the first call put the
\* zero-width space in, the second call changed nothing.
C23_Witness ==
    /\ last.op = "content_safe_again"
    /\ msg.content = <<"h", "i", " ">> \o AtHere
    /\ Pre.content = <<"h", "i", " ", "@", ZWSP, "h", "e", "r", "e">>
    /\ last.out[1] = Pre.content
    /\ msg.mentions # <<>>

----------------------------------------------------------------------------
\* C24.  For a message of type PinsAdd transform_content sets the content
\* to the author's mention followed by " pinned a message to this channel.
\* See all the pins.", whatever the content was.
C24_PinNotice ==
    (last.op = "transform_content" /\ Pre.kind = "PinsAdd") =>
        /\ SubSeq(msg.content, 1, 4) = <<"<", "@">> \o Pre.author.id \o <<">">>
        /\ SubSeq(msg.content, 5, Len(msg.content)) = PinnedText
        /\ Len(msg.content) = 56

\* A pin notice that came with the content "hello" got the template.
C24_Witness ==
    /\ last.op = "transform_content"
    /\ Pre.kind = "PinsAdd"
    /\ Pre.content = Hello
    /\ Pre.author.id = U2
    /\ SubSeq(msg.content, 1, 12) =
          <<"<", "@", "8", ">", " ", "p", "i", "n", "n", "e", "d", " ">>

----------------------------------------------------------------------------
\* C25.  For a message of type MemberJoin transform_content is
\* deterministic and stable: the content becomes the template of the pool
\* at index timestamp mod pool size, with every "$user" replaced by the
\* author's mention.  It depends on the timestamp and the author only, not
\* on the content before, so a second call leaves what the first one set.
C25_MemberJoin ==
    (last.op = "transform_content" /\ Pre.kind = "MemberJoin") =>
        LET mention == <<"<", "@">> \o Pre.author.id \o <<">">>
            index == Pre.timestamp % 3
        IN  /\ index = 0 => msg.content = mention \o <<" ", "j", "o", "i", "n", "e", "d">>
            /\ index = 1 => msg.content = <<"w", "e", "l", "c", "o", "m", "e">>
            /\ index = 2 => msg.content = mention \o <<",", " ">> \o mention \o <<"!">>
            /\ ncalls > 1 => msg.content = Pre.content

\* The second call on a join message whose timestamp is past the size of
\* the pool: the content is the one the first call set, both placeholders
\* replaced.
C25_Witness ==
    /\ last.op = "transform_content"
    /\ Pre.kind = "MemberJoin"
    /\ ncalls = 2
    /\ Pre.timestamp = 2 + 3
    /\ msg.content = <<"<", "@", "7", ">", ",", " ", "<", "@", "7", ">", "!">>
    /\ msg.content = Pre.content

----------------------------------------------------------------------------
\* C27.  transform_content changes the content only, and only for the two
\* system types: a message that is neither PinsAdd nor MemberJoin is left
\* as it is, content included, and for PinsAdd and MemberJoin every field
\* other than the content keeps its value.
C27_OnlyContent ==
    last.op = "transform_content" =>
        /\ Pre.kind \notin {"PinsAdd", "MemberJoin"} => msg = Pre
        /\ [msg EXCEPT !.content = Pre.content] = Pre

\* A Regular message keeps its content, a PinsAdd message in the same
\* place would not: the message here is Regular with "hello".
C27_Witness ==
    /\ last.op = "transform_content"
    /\ Pre.kind = "Regular"
    /\ Pre.content = Hello
    /\ msg = Pre

----------------------------------------------------------------------------
\* C26.  member on a message without guild id returns ItemMissing and
\* consults neither the cache nor the transport.  On a guild message with a
\* cache that holds the author's member it returns that member and makes
\* no request.  Only when the cache does not hold the member, or there is
\* no cache, is a get-member request made, for the guild and the author,
\* and exactly one; its answer is what member returns.
C26_Member ==
    last.op = "member" =>
        LET author == Pre.author.id
            hit == HasCache /\ author \in DOMAIN cache[1].members
        IN  /\ Pre.guild_id = None =>
                  /\ last.res = ItemMissing
                  /\ last.lookups = 0
                  /\ last.sent = 0
                  /\ last.out = None
            /\ (IsSome(Pre.guild_id) /\ hit) =>
                  /\ last.res = Ok
                  /\ last.out = Some([user_id |-> author, nick |-> <<"c">>])
                  /\ last.sent = 0
            /\ (IsSome(Pre.guild_id) /\ ~hit) =>
                  /\ last.sent = 1
                  /\ last.req = Some(Request("get_member", Some(<<Pre.guild_id[1], author>>)))
                  /\ last.lookups = (IF HasCache THEN 1 ELSE 0)
                  /\ (pc = "ready" /\ last.res = Ok) =>
                        last.out = Some([user_id |-> author, nick |-> <<"s">>])
                  /\ last.res # Ok => last.out = None
            /\ msg = Pre

\* The cache holds the member of another user only: the author's member
\* was requested and the transport's answer returned.
C26_Witness ==
    /\ last.op = "member"
    /\ HasCache
    /\ Pre.author.id = U2
    /\ DOMAIN cache[1].members = {U1}
    /\ last.sent = 1
    /\ last.res = Ok
    /\ last.out = Some([user_id |-> U2, nick |-> <<"s">>])

====
